---- MODULE Spec2Model ----
(***************************************************************************)
(* Model of the two conflict-marker scripts of the repository:             *)
(*   resolve_core_conflicts.py  - the Marker-Scan Filter (line scan with   *)
(*                                the flags in_head / in_remote)           *)
(*   resolve_head.py            - the Marker-Block Eraser (pattern.sub)    *)
(* Both run the same batch loop: for each path, read the whole file,       *)
(* transform the text in memory, open the path for writing and write.      *)
(*                                                                         *)
(* A text is a sequence of characters.  The three marker literals are      *)
(* taken as single characters (HEAD, SEP, END): no claim depends on a      *)
(* partly written marker.  A line is a text without NL.                    *)
(***************************************************************************)
EXTENDS Integers, Sequences, FiniteSets, TLC

VARIABLES
    script,      \* "scan" = resolve_core_conflicts.py, "head" = resolve_head.py
    files,       \* the path list the loop iterates over
    shape,       \* how each file's initial text was built (history, never read by the scripts)
    disk,        \* path -> text on disk
    present,     \* the paths at which a file exists
    written,     \* history: the paths whose write was completed, in order
    idx,         \* position of the for loop in files
    pc,          \* position of the script inside the loop body
    content,     \* content = f.read()
    lines,       \* lines = content.split('\n')
    i,           \* position of the inner "for line in lines" loop
    new_lines,   \* the output list of the scan
    in_head,     \* flag of the scan
    in_remote,   \* flag of the scan
    new_content  \* new_content = pattern.sub(r'\1', content)

vars == <<script, files, shape, disk, present, written, idx, pc, content, lines,
          i, new_lines, in_head, in_remote, new_content>>

----------------------------------------------------------------------------
(* Characters *)

HEAD == "<<<<<<< HEAD"
SEP  == "======="
END  == ">>>>>>>"
SP   == " "
NL   == "\n"

Min(S) == CHOOSE x \in S : \A y \in S : x <= y

----------------------------------------------------------------------------
(* str.split('\n'), '\n'.join(list), str.startswith(prefix) *)

NLs(t) == {k \in 1..Len(t) : t[k] = NL}

RECURSIVE Split(_)
Split(t) ==
    IF NLs(t) = {} THEN <<t>>
    ELSE LET k == Min(NLs(t))
         IN  <<SubSeq(t, 1, k - 1)>> \o Split(SubSeq(t, k + 1, Len(t)))

RECURSIVE Join(_)
Join(ls) ==
    IF ls = <<>> THEN <<>>
    ELSE IF Len(ls) = 1 THEN ls[1]
    ELSE ls[1] \o <<NL>> \o Join(Tail(ls))

StartsWith(line, prefix) ==
    /\ Len(line) >= Len(prefix)
    /\ SubSeq(line, 1, Len(prefix)) = prefix

IsStart(line) == StartsWith(line, <<HEAD>>)
IsSep(line)   == StartsWith(line, <<SEP>>)
IsEnd(line)   == StartsWith(line, <<END>>)

----------------------------------------------------------------------------
(* The pattern  <<<<<<< HEAD\n(.*?)\n=======\n.*?\n>>>>>>> [^\n]+  (DOTALL)  *)
(* and pattern.sub(r'\1', content).                                          *)

\* the literal "<<<<<<< HEAD\n" at q
HeadAt(t, q) == q + 1 <= Len(t) /\ t[q] = HEAD /\ t[q + 1] = NL

\* the separator without the line end behind it: "\n======="
SepAtPrefix(t, g) == g + 1 <= Len(t) /\ t[g] = NL /\ t[g + 1] = SEP

\* the literal "\n=======\n" at g
SepAt(t, g) == g + 2 <= Len(t) /\ t[g] = NL /\ t[g + 1] = SEP /\ t[g + 2] = NL

\* the literal "\n>>>>>>> " at e followed by one character of [^\n]+
EndAt(t, e) ==
    e + 3 <= Len(t) /\ t[e] = NL /\ t[e + 1] = END /\ t[e + 2] = SP /\ t[e + 3] # NL

\* (.*?) is lazy: the group ends before the first "\n=======\n" at or after
\* q+2 (0: there is none)
FirstSep(t, q) ==
    LET G == {g \in (q + 2)..Len(t) : SepAt(t, g)}
    IN  IF G = {} THEN 0 ELSE Min(G)

\* .*? is lazy: the first "\n>>>>>>> x" at or after the end of the separator
\* at g (0: there is none)
FirstEnd(t, g) ==
    LET E == {e \in (g + 3)..Len(t) : EndAt(t, e)}
    IN  IF E = {} THEN 0 ELSE Min(E)

\* [^\n]+ is greedy: up to the end of the line
LineEnd(t, p) ==
    LET N == {k \in p..Len(t) : t[k] = NL}
    IN  IF N = {} THEN Len(t) ELSE Min(N) - 1

\* whether the pattern matches at q.  Backtracking tries the later separators
\* and end markers too, but an end marker behind a later separator is also
\* behind the first one: there is a match iff the first separator has an end
\* marker behind it, and the lazy quantifiers then stop at these two.
MatchesAt(t, q) ==
    /\ HeadAt(t, q)
    /\ FirstSep(t, q) # 0
    /\ FirstEnd(t, FirstSep(t, q)) # 0

\* the match at q: its separator, its end marker, its last character
MatchAt(t, q) ==
    LET g == FirstSep(t, q)
        e == FirstEnd(t, g)
    IN  [start |-> q, sep |-> g, end |-> e, last |-> LineEnd(t, e + 3)]

\* the replacement is the text between the separator and the end marker
Group1Incoming(t, m) == SubSeq(t, m.sep + 3, m.end - 1)

\* group 1 of the match m
Group1(t, m) == SubSeq(t, m.start + 2, m.sep - 1)

\* the non-overlapping matches, leftmost first, from position p on
RECURSIVE FindAll(_, _)
FindAll(t, p) ==
    IF p > Len(t) THEN <<>>
    ELSE IF MatchesAt(t, p)
         THEN <<MatchAt(t, p)>> \o FindAll(t, MatchAt(t, p).last + 1)
         ELSE FindAll(t, p + 1)

\* pattern.sub(r'\1', t) from position p on
RECURSIVE SubFrom(_, _)
SubFrom(t, p) ==
    IF p > Len(t) THEN <<>>
    ELSE IF MatchesAt(t, p)
         THEN Group1(t, MatchAt(t, p)) \o SubFrom(t, MatchAt(t, p).last + 1)
         ELSE <<t[p]>> \o SubFrom(t, p + 1)

PatternSub(t) == SubFrom(t, 1)

----------------------------------------------------------------------------
(* The documents the scripts are run on *)

MaxLines == 4   \* lines of a document built from arbitrary lines
MaxItems == 3   \* items (ordinary lines, blocks) of a well-formed document
MaxNest  == 5   \* items of a document with stray markers around blocks
MaxFiles == 3   \* paths of a batch run
MaxPart  == 1   \* characters that reach the disk when a write fails

Ordinary   == <<"a">>
Incoming   == <<"b">>                 \* a line of an incoming segment
Blank      == <<>>
StartLine  == <<HEAD>>                \* "<<<<<<< HEAD"
StartLineX == <<HEAD, "x">>           \* a line that only starts with the start marker
HeadAtEnd  == <<"a", HEAD>>           \* a line that ends with the start marker
SepLine    == <<SEP>>                 \* "======="
SepLineX   == <<SEP, "x">>            \* a line that only starts with the separator
EndLine    == <<END, SP, "x", "y">>   \* ">>>>>>> xy"
EndBare    == <<END>>                 \* an end marker without identifier

AllLines == {Ordinary, Blank, StartLine, StartLineX, HeadAtEnd,
             SepLine, SepLineX, EndLine, EndBare}

IsMarker(line) == IsStart(line) \/ IsSep(line) \/ IsEnd(line)

\* an item of a document: one line, or a conflict block
LineItem(l) ==
    [kind |-> "line", text |-> l, start |-> <<>>, local |-> <<>>,
     sep |-> <<>>, incoming |-> <<>>, end |-> <<>>]

Block(st, lo, se, inc, en) ==
    [kind |-> "block", text |-> <<>>, start |-> st, local |-> lo,
     sep |-> se, incoming |-> inc, end |-> en]

ItemLines(it) ==
    IF it.kind = "line" THEN <<it.text>>
    ELSE <<it.start>> \o it.local \o <<it.sep>> \o it.incoming \o <<it.end>>

RECURSIVE Flatten(_)
Flatten(sh) == IF sh = <<>> THEN <<>> ELSE ItemLines(Head(sh)) \o Flatten(Tail(sh))

SeqsUpTo(S, n) == UNION {[1..k -> S] : k \in 1..n}

\* blocks with exact markers and every pair of segments, and blocks whose
\* markers carry trailing text or lack the identifier
PlainBlocks == {Block(StartLine, lo, SepLine, inc, EndLine) :
                    lo \in {<<>>, <<Ordinary>>}, inc \in {<<>>, <<Incoming>>}}
LooseBlocks == {Block(StartLineX, <<Ordinary>>, SepLine, <<Incoming>>, EndBare),
                Block(StartLine, <<Ordinary>>, SepLineX, <<Incoming>>, EndLine)}
FullBlock   == Block(StartLine, <<Ordinary>>, SepLine, <<Incoming>>, EndLine)

GeneralShapes    == SeqsUpTo({LineItem(l) : l \in AllLines}, MaxLines)
WellFormedShapes == SeqsUpTo({LineItem(Ordinary), LineItem(Blank)}
                                \cup PlainBlocks \cup LooseBlocks, MaxItems)
NestedShapes     == SeqsUpTo({LineItem(l) : l \in {Ordinary, StartLine, SepLine, EndLine}}
                                \cup {FullBlock}, MaxNest)
BatchShapes      == {<<LineItem(Ordinary)>>, <<FullBlock>>,
                     <<LineItem(StartLine), LineItem(Ordinary)>>}

\* a well-formed document: ordinary lines and non-nested blocks, no segment
\* line and no line outside the blocks starts with a marker
WellFormed(sh) ==
    \A k \in 1..Len(sh) :
        IF sh[k].kind = "line" THEN ~IsMarker(sh[k].text)
        ELSE /\ IsStart(sh[k].start) /\ IsSep(sh[k].sep) /\ IsEnd(sh[k].end)
             /\ \A j \in 1..Len(sh[k].local) : ~IsMarker(sh[k].local[j])
             /\ \A j \in 1..Len(sh[k].incoming) : ~IsMarker(sh[k].incoming[j])

Original(sh) == Join(Flatten(sh))

----------------------------------------------------------------------------
(* The batch loop of both scripts *)

Path == files[idx]

\* a path that is not in the list; a file exists there
OutsidePath == 0

\* The list holds the paths 1..n.  A run on one path takes any document; a run
\* on several paths takes small ones, and one of the listed paths may name no
\* file (the literal list of resolve_head.py is not checked against the disk).
Init ==
    /\ script \in {"scan", "head"}
    /\ \E n \in 1..MaxFiles :
          /\ files = [k \in 1..n |-> k]
          /\ \E s \in [1..n -> IF n = 1
                                THEN GeneralShapes \cup WellFormedShapes \cup NestedShapes
                                ELSE BatchShapes],
                miss \in {{}} \cup (IF n = 1 THEN {} ELSE {{k} : k \in 1..n}) :
                /\ shape = [f \in {OutsidePath} \cup (1..n) |->
                               IF f = OutsidePath THEN <<FullBlock>>
                               ELSE IF f \in miss THEN <<LineItem(Blank)>>
                               ELSE s[f]]
                /\ present = ({OutsidePath} \cup (1..n)) \ miss
    /\ disk = [f \in DOMAIN shape |-> Original(shape[f])]
    /\ written = <<>>
    /\ idx = 1
    /\ pc = "read"
    /\ content = <<>>
    /\ lines = <<>>
    /\ i = 0
    /\ new_lines = <<>>
    /\ in_head = FALSE
    /\ in_remote = FALSE
    /\ new_content = <<>>

\* the file is opened for reading in a mode that truncates it ('w+')
ReadTruncating ==
    /\ pc = "read"
    /\ Path \in present
    /\ content' = <<>>
    /\ disk' = [disk EXCEPT ![Path] = <<>>]
    /\ IF script = "scan"
       THEN /\ lines' = Split(<<>>)
            /\ i' = 1
            /\ pc' = "scan"
       ELSE /\ lines' = <<>>
            /\ i' = 0
            /\ pc' = "sub"
    /\ new_lines' = <<>>
    /\ in_head' = FALSE
    /\ in_remote' = FALSE
    /\ new_content' = <<>>
    /\ UNCHANGED <<script, files, shape, present, written, idx>>

\* with open(filepath, 'r') as f: content = f.read(); then, in the scan script,
\* lines = content.split('\n') and the reset of new_lines and of the flags
Read ==
    /\ pc = "read"
    /\ Path \in present
    /\ content' = disk[Path]
    /\ IF script = "scan"
       THEN /\ lines' = Split(disk[Path])
            /\ i' = 1
            /\ pc' = "scan"
       ELSE /\ lines' = <<>>
            /\ i' = 0
            /\ pc' = "sub"
    /\ new_lines' = <<>>
    /\ in_head' = FALSE
    /\ in_remote' = FALSE
    /\ new_content' = <<>>
    /\ UNCHANGED <<script, files, shape, disk, present, written, idx>>

\* open or read raises: the exception is not caught and ends the run
ReadFail ==
    /\ pc = "read"
    /\ pc' = "failed"
    /\ UNCHANGED <<script, files, shape, disk, present, written, idx, content, lines, i, new_lines,
                   in_head, in_remote, new_content>>

\* One pass of the body of "for line in lines", branch by branch: the flags and
\* the output after reading `line` with the flags h (in_head), r (in_remote)
\* and the output out.

St(h, r, out) == [in_head |-> h, in_remote |-> r, new_lines |-> out]

\* the start marker is appended when it is read inside a local segment
OnStartEmitsNested(line, h, r, out) ==
    IF h THEN St(TRUE, r, Append(out, line)) ELSE St(TRUE, r, out)

\* if line.startswith('<<<<<<< HEAD'): in_head = True; continue
OnStart(line, h, r, out) == St(TRUE, r, out)

\* the separator of a block leaves the flags as they are
OnSepNoIncoming(line, h, r, out) ==
    IF h THEN St(h, r, out) ELSE St(h, r, Append(out, line))

\* the separator of a block sets in_remote and keeps in_head
OnSepKeepsHead(line, h, r, out) ==
    IF h THEN St(h, TRUE, out) ELSE St(h, r, Append(out, line))

\* elif line.startswith('======='): ...
OnSep(line, h, r, out) ==
    IF h THEN St(FALSE, TRUE, out) ELSE St(h, r, Append(out, line))

\* the end marker is dropped in every state
OnEndDropsAll(line, h, r, out) ==
    IF r THEN St(h, FALSE, out) ELSE St(h, r, out)

\* the end marker of a block leaves in_remote set
OnEndNeverCloses(line, h, r, out) ==
    IF r THEN St(h, r, out) ELSE St(h, r, Append(out, line))

\* an end marker read in a local segment closes the block
OnEndClosesLocal(line, h, r, out) ==
    IF r THEN St(h, FALSE, out)
    ELSE IF h THEN St(FALSE, r, out) ELSE St(h, r, Append(out, line))

\* a stray end marker is appended without its identifier
OnEndBare(line, h, r, out) ==
    IF r THEN St(h, FALSE, out) ELSE St(h, r, Append(out, <<END>>))

\* elif line.startswith('>>>>>>>'): ...
OnEnd(line, h, r, out) ==
    IF r THEN St(h, FALSE, out) ELSE St(h, r, Append(out, line))

\* an ordinary line is appended in every state
OnOtherKeepsAll(line, h, r, out) == St(h, r, Append(out, line))

\* if in_remote: pass / else: new_lines.append(line)
OnOther(line, h, r, out) ==
    IF r THEN St(h, r, out) ELSE St(h, r, Append(out, line))

ScanStep(line, h, r, out) ==
    IF IsStart(line) THEN OnStart(line, h, r, out)
    ELSE IF IsSep(line) THEN OnSep(line, h, r, out)
    ELSE IF IsEnd(line) THEN OnEnd(line, h, r, out)
    ELSE OnOther(line, h, r, out)

ScanLine ==
    /\ pc = "scan"
    /\ i <= Len(lines)
    /\ LET s == ScanStep(lines[i], in_head, in_remote, new_lines)
       IN  /\ in_head' = s.in_head
           /\ in_remote' = s.in_remote
           /\ new_lines' = s.new_lines
    /\ i' = i + 1
    /\ pc' = IF i = Len(lines) THEN "open" ELSE "scan"
    /\ UNCHANGED <<script, files, shape, disk, present, written, idx, content, lines, new_content>>

\* new_content = pattern.sub(r'\1', content)
Erase(t) == PatternSub(t)

Sub ==
    /\ pc = "sub"
    /\ new_content' = Erase(content)
    /\ pc' = "open"
    /\ UNCHANGED <<script, files, shape, disk, present, written, idx, content, lines, i, new_lines,
                   in_head, in_remote>>

\* the text that was read is written back
OutputUnchanged == content

\* the text handed to f.write
Output == IF script = "scan" THEN Join(new_lines) ELSE new_content

\* the file every write goes to is the first of the list
TargetFirst == files[1]

\* the path opened for writing: filepath, the path that was read
Target == Path

\* open(filepath, 'w') creates the file if there is none and truncates it
OpenWrite ==
    /\ pc = "open"
    /\ disk' = [disk EXCEPT ![Target] = <<>>]
    /\ present' = present \cup {Target}
    /\ pc' = "write"
    /\ UNCHANGED <<script, files, shape, written, idx, content, lines, i, new_lines,
                   in_head, in_remote, new_content>>

\* open(filepath, 'w') raises: the file is as it was
OpenWriteFail ==
    /\ pc = "open"
    /\ pc' = "failed"
    /\ UNCHANGED <<script, files, shape, disk, present, written, idx, content, lines, i, new_lines,
                   in_head, in_remote, new_content>>

\* where the loop goes after the write of the current file
AfterWrite == IF idx = Len(files) THEN "done" ELSE "read"

\* f.write(...) and the close of the file, then the next path of the loop
Write ==
    /\ pc = "write"
    /\ disk' = [disk EXCEPT ![Target] = Output]
    /\ written' = Append(written, Target)
    /\ idx' = idx + 1
    /\ pc' = AfterWrite
    /\ UNCHANGED <<script, files, shape, present, content, lines, i, new_lines,
                   in_head, in_remote, new_content>>

\* f.write or the close raises: some leading part of the text is on disk
WriteFail ==
    /\ pc = "write"
    /\ \E n \in 0..MaxPart :
          /\ n <= Len(Output)
          /\ disk' = [disk EXCEPT ![Target] = SubSeq(Output, 1, n)]
    /\ pc' = "failed"
    /\ UNCHANGED <<script, files, shape, present, written, idx, content, lines, i,
                   new_lines, in_head, in_remote, new_content>>

Next ==
    \/ Read
    \/ ReadFail
    \/ ScanLine
    \/ Sub
    \/ OpenWrite
    \/ OpenWriteFail
    \/ Write
    \/ WriteFail

Spec == Init /\ [][Next]_vars

----------------------------------------------------------------------------
(* Both routines as functions of a text, and what the claims speak about *)

\* the scan of the lines ls from line k on (lines 15-36 repeated)
RECURSIVE ScanFrom(_, _, _, _, _)
ScanFrom(ls, k, h, r, out) ==
    IF k > Len(ls) THEN out
    ELSE LET s == ScanStep(ls[k], h, r, out)
         IN  ScanFrom(ls, k + 1, s.in_head, s.in_remote, s.new_lines)

\* resolve_core_conflicts.py on one text
Filter(t) == Join(ScanFrom(Split(t), 1, FALSE, FALSE, <<>>))

\* the script's transformation of one text
Transform(t) == IF script = "scan" THEN Filter(t) ELSE Erase(t)

\* the transformation of the current file is complete (before or after the
\* open for writing)
Transformed == pc \in {"open", "write"}
ScanDone    == script = "scan" /\ Transformed
EraseDone   == script = "head" /\ Transformed

\* the lines a well-formed document keeps: the lines outside the blocks and
\* the local segments
KeptLines(it) == IF it.kind = "line" THEN <<it.text>> ELSE it.local

RECURSIVE Keep(_)
Keep(sh) == IF sh = <<>> THEN <<>> ELSE KeptLines(Head(sh)) \o Keep(Tail(sh))

Blocks(sh) == {k \in 1..Len(sh) : sh[k].kind = "block"}

\* an end-marker line with an identifier
IsEndId(line) == StartsWith(line, <<END, SP>>) /\ Len(line) >= 3

\* every block of sh has the exact start marker, the exact separator and an
\* end marker with an identifier
ExactMarkers(sh) ==
    \A k \in Blocks(sh) :
        sh[k].start = StartLine /\ sh[k].sep = SepLine /\ IsEndId(sh[k].end)

----------------------------------------------------------------------------
(* C1: on a well-formed document (ordinary lines and non-nested blocks whose
   marker lines start with the three prefixes) the scan's output is the lines
   outside the blocks and the local segments, in order: no marker line and no
   incoming line. *)
C1_ScanKeepsLocal ==
    (ScanDone /\ WellFormed(shape[Path])) =>
        /\ new_lines = Keep(shape[Path])
        /\ Output = Join(Keep(shape[Path]))

\* [a, <<<<<<< HEAD, a, =======, b, >>>>>>> xy, a] has been scanned to [a, a, a]
C1_Witness ==
    /\ ScanDone
    /\ shape[Path] = <<LineItem(Ordinary), FullBlock, LineItem(Ordinary)>>
    /\ new_lines = <<Ordinary, Ordinary, Ordinary>>

(* C2: on a document with exactly one well-formed block (exact markers, end
   marker with identifier, segments of any length, zero included) the scan and
   the eraser give the same text. *)
C2_FilterEqualsEraser ==
    (/\ Transformed
     /\ WellFormed(shape[Path])
     /\ ExactMarkers(shape[Path])
     /\ Cardinality(Blocks(shape[Path])) = 1) =>
        /\ Filter(content) = Erase(content)
        /\ Output = Join(Keep(shape[Path]))

(* C3: on a document with N >= 1 well-formed, non-nested blocks (exact
   markers) the eraser replaces each block by its own local segment and keeps
   the text between and around the blocks. *)
C3_BlocksErasedIndependently ==
    (/\ EraseDone
     /\ WellFormed(shape[Path])
     /\ ExactMarkers(shape[Path])
     /\ Blocks(shape[Path]) # {}) =>
        /\ new_content = Join(Keep(shape[Path]))
        /\ Len(FindAll(content, 1)) = Cardinality(Blocks(shape[Path]))

(* C4: a line read while in_remote is true is never appended to the output,
   whatever its text. *)
C4_IncomingNeverEmitted ==
    [][(pc = "scan" /\ in_remote) => new_lines' = new_lines]_vars

(* C5 as claimed: in_head and in_remote are never both true. *)
C5_NeverBothFlags == ~(in_head /\ in_remote)

(* C5: the flags become both true only by reading a start-marker line while
   in_remote is true (which sets in_head and leaves in_remote set); without
   such a line they are never both true. *)
C5_BothOnlyByStartInIncoming ==
    [][(in_head' /\ in_remote') =>
          \/ in_head /\ in_remote
          \/ pc = "scan" /\ in_remote /\ IsStart(lines[i])]_vars

\* a start marker has been read in the incoming segment: both flags are set
C5_Witness ==
    /\ pc = "scan"
    /\ i = 4
    /\ SubSeq(lines, 1, 3) = <<StartLine, SepLine, StartLine>>
    /\ in_head /\ in_remote

(* C6 as claimed: a document without a conflict block (no start-marker line
   followed by a separator line and then an end-marker line) is returned
   unchanged by both routines. *)
NoBlock(ls) ==
    ~ \E a, b, c \in 1..Len(ls) :
          a < b /\ b < c /\ IsStart(ls[a]) /\ IsSep(ls[b]) /\ IsEnd(ls[c])

C6_NoBlockIdentity ==
    (Transformed /\ NoBlock(Split(content))) => Output = content

(* C6: the scan returns unchanged every document in which no line starts with
   the start marker, and the eraser returns unchanged every document without a
   line ending in the start marker that is followed by a line "=======" and
   then by an end-marker line with an identifier. *)
EndsWithHead(line) == Len(line) >= 1 /\ line[Len(line)] = HEAD

NoStartLine(ls) == \A a \in 1..Len(ls) : ~IsStart(ls[a])

NoEraserBlock(ls) ==
    ~ \E a, b, c \in 1..Len(ls) :
          a < b /\ b < c /\ EndsWithHead(ls[a]) /\ ls[b] = SepLine /\ IsEndId(ls[c])

C6_Identity ==
    /\ (ScanDone /\ NoStartLine(Split(content))) => Output = content
    /\ (EraseDone /\ NoEraserBlock(Split(content))) => Output = content

\* a separator and an end marker outside any block went through the scan
C6_Witness ==
    /\ ScanDone
    /\ lines = <<SepLine, Ordinary, EndLine>>
    /\ Output = content

(* C7 as claimed: each routine is idempotent on every document.  It is stated
   on the documents without an empty segment (no start marker directly before
   a separator line, no separator line directly before an end marker), where
   the eraser misses no block. *)
NoEmptySegment(ls) ==
    \A a \in 1..(Len(ls) - 1) :
        /\ ~(EndsWithHead(ls[a]) /\ ls[a + 1] = SepLine)
        /\ ~(ls[a] = SepLine /\ IsEndId(ls[a + 1]))

C7_Idempotent ==
    (Transformed /\ NoEmptySegment(Split(content))) => Transform(Output) = Output

(* C7: the scan is idempotent on every document; a second run of the eraser
   changes nothing whenever the output of the first holds no line ending in
   the start marker that is followed by a line "=======" and then by an
   end-marker line with an identifier. *)
C7_IdempotentResolved ==
    /\ ScanDone => Filter(Output) = Output
    /\ (EraseDone /\ NoEraserBlock(Split(new_content))) => Erase(new_content) = new_content

\* the scan left a separator and an end marker in its output, and a second
\* scan leaves them too
C7_Witness ==
    /\ ScanDone
    /\ shape[Path] = <<LineItem(SepLine), FullBlock, LineItem(EndLine)>>
    /\ Output = Join(<<SepLine, Ordinary, EndLine>>)
    /\ Filter(Output) = Output

(* C8 as claimed: a start-marker line that is not followed by its own
   separator and end marker (the next marker line after it is not a separator,
   or the next one after that is not an end marker) is left intact by the
   eraser in every document. *)
\* the position in Join(ls) of the first character of line a
RECURSIVE Offset(_, _)
Offset(ls, a) == IF a = 1 THEN 1 ELSE Offset(ls, a - 1) + Len(ls[a - 1]) + 1

MarkersAfter(ls, a) == {b \in (a + 1)..Len(ls) : IsMarker(ls[b])}

OwnBlock(ls, a) ==
    /\ MarkersAfter(ls, a) # {}
    /\ LET b == Min(MarkersAfter(ls, a))
       IN  /\ IsSep(ls[b])
           /\ MarkersAfter(ls, b) # {}
           /\ IsEnd(ls[Min(MarkersAfter(ls, b))])

\* the character at q is removed by the substitution: it lies in a match and
\* outside its group
Erased(t, q) ==
    \E k \in 1..Len(FindAll(t, 1)) :
        LET m == FindAll(t, 1)[k]
        IN  (m.start <= q /\ q <= m.start + 1) \/ (m.sep <= q /\ q <= m.last)

C8_IncompleteStartKept ==
    EraseDone =>
        LET ls == Split(content)
        IN  \A a \in 1..Len(ls) :
                (IsStart(ls[a]) /\ ~OwnBlock(ls, a)) => ~Erased(content, Offset(ls, a))

(* C8: a start marker after which the text holds no line "=======" followed
   later by an end-marker line with an identifier, and which does not lie in a
   block matched from an earlier start marker, is left intact together with
   all the text behind it. *)
NoLaterSepEnd(ls, a) ==
    ~ \E b, c \in (a + 1)..Len(ls) : b < c /\ ls[b] = SepLine /\ IsEndId(ls[c])

InEarlierMatch(t, q) ==
    \E k \in 1..Len(FindAll(t, 1)) :
        FindAll(t, 1)[k].start < q /\ q <= FindAll(t, 1)[k].last

IsSuffix(u, t) == Len(u) <= Len(t) /\ SubSeq(t, Len(t) - Len(u) + 1, Len(t)) = u

C8_UnfollowedStartKept ==
    EraseDone =>
        LET ls == Split(content)
        IN  \A a \in 1..Len(ls) :
                (/\ IsStart(ls[a])
                 /\ NoLaterSepEnd(ls, a)
                 /\ ~InEarlierMatch(content, Offset(ls, a))) =>
                    IsSuffix(SubSeq(content, Offset(ls, a), Len(content)), new_content)

\* a start marker behind a complete block: the block is replaced, the marker
\* and the line after it stay
C8_Witness ==
    /\ EraseDone
    /\ shape[Path] = <<FullBlock, LineItem(StartLine), LineItem(Ordinary)>>
    /\ new_content = Join(<<Ordinary, StartLine, Ordinary>>)

(* C9: when the read or the write of the k-th file fails the run stops at
   once; every file before the k-th holds its transformed text and every file
   after it its original text. *)
C9_AbortLeavesRest ==
    pc = "failed" =>
        /\ \A k \in 1..Len(files) :
              /\ k < idx => disk[files[k]] = Transform(Original(shape[files[k]]))
              /\ k > idx => disk[files[k]] = Original(shape[files[k]])
        /\ ~ENABLED Next

\* the second of three files failed after the first one was rewritten
C9_Witness ==
    /\ pc = "failed"
    /\ Len(files) = 3
    /\ idx = 2
    /\ shape[1] = <<FullBlock>>
    /\ disk[1] = Ordinary
    /\ disk[3] = Original(shape[3])

(* C10: on a well-formed document the scan is in OUTSIDE (both flags false)
   after each end-marker line and when the last line has been read. *)
C10_OutsideAfterEnd ==
    (script = "scan" /\ pc \in {"scan", "open", "write"} /\ WellFormed(shape[Path])) =>
        /\ (i > 1 /\ IsEnd(lines[i - 1])) => (~in_head /\ ~in_remote)
        /\ pc \in {"open", "write"} => (~in_head /\ ~in_remote)

\* the end marker of the second block of a document has just been read
C10_Witness ==
    /\ script = "scan"
    /\ pc = "scan"
    /\ shape[Path] = <<FullBlock, FullBlock, LineItem(Ordinary)>>
    /\ i = 11
    /\ IsEnd(lines[10])
    /\ ~in_head /\ ~in_remote

\* the file on disk holds the first n characters of the text being written
Truncated(f) == \E n \in 0..Len(Output) : disk[f] = SubSeq(Output, 1, n)

(* C11: both scripts handle the files one at a time in list order.  A file
   holds its original text until its own overwrite starts: every file after
   the current one, and the current one while it is read and transformed, is
   untouched, so a run that stops there loses nothing.  Only a run that stops
   after the overwrite of the current file started can leave that file
   truncated or empty.  When the k-th file is read, the writes of all files
   before it have finished, each with that file's transformed text. *)
C11_ReadTransformWrite ==
    /\ idx \in 1..(Len(files) + 1)
    /\ written = SubSeq(files, 1, idx - 1)
    /\ \A k \in 1..Len(files) :
          LET f == files[k] IN
          /\ k < idx => disk[f] = Transform(Original(shape[f]))
          /\ k > idx => disk[f] = Original(shape[f])
          /\ (k = idx /\ pc \in {"read", "scan", "sub", "open"}) =>
                disk[f] = Original(shape[f])
          /\ (k = idx /\ pc = "write") => disk[f] = <<>>
          /\ (k = idx /\ pc = "failed") =>
                (disk[f] = Original(shape[f]) \/ Truncated(f))

\* the second file has been read and transformed and is not yet opened for
\* writing: it is untouched, and the first file is rewritten
C11_Witness ==
    /\ pc = "open"
    /\ idx = 2
    /\ shape[1] = <<FullBlock>>
    /\ shape[2] = <<FullBlock>>
    /\ disk[1] = Ordinary
    /\ Output = Ordinary
    /\ disk[2] = Original(shape[2])

\* the text with each match of ms, from the k-th on, replaced by its local
\* segment and everything between the matches copied
RECURSIVE Stitch(_, _, _)
Stitch(t, ms, k) ==
    LET from == IF k = 1 THEN 1 ELSE ms[k - 1].last + 1
    IN  IF k > Len(ms) THEN SubSeq(t, from, Len(t))
        ELSE SubSeq(t, from, ms[k].start - 1) \o Group1(t, ms[k])
                 \o Stitch(t, ms, k + 1)

\* the match m runs from a start marker to the end of the line of its end
\* marker, and its local segment lies between the start marker's line end and
\* the separator's
WholeBlock(t, m) ==
    /\ t[m.start] = HEAD /\ t[m.start + 1] = NL
    /\ m.start + 2 <= m.sep
    /\ t[m.sep] = NL /\ t[m.sep + 1] = SEP /\ t[m.sep + 2] = NL
    /\ m.sep + 3 <= m.end
    /\ t[m.end] = NL /\ t[m.end + 1] = END /\ t[m.end + 2] = SP
    /\ m.last >= m.end + 3
    /\ \A j \in (m.end + 1)..m.last : t[j] # NL
    /\ (m.last = Len(t) \/ t[m.last + 1] = NL)

(* C12: the eraser's output is its input with each matched block, from the
   start marker to the end of the end marker's line, replaced by the block's
   local segment; the text outside the matched blocks is copied unchanged and
   in order, and the separator, the incoming segment and the end marker's
   identifier of a matched block are gone.  The lines x, <<<<<<< HEAD, keep,
   =======, drop, >>>>>>> id, y become x, keep, y. *)
C12_EraserFrame ==
    EraseDone =>
        LET ms == FindAll(content, 1) IN
        /\ \A k \in 1..Len(ms) : WholeBlock(content, ms[k])
        /\ \A k \in 2..Len(ms) : ms[k - 1].last < ms[k].start
        /\ new_content = Stitch(content, ms, 1)
        /\ shape[Path] = <<LineItem(Ordinary), FullBlock, LineItem(Ordinary)>> =>
              new_content = Join(<<Ordinary, Ordinary, Ordinary>>)
        /\ shape[Path] = <<LineItem(SepLine), FullBlock, LineItem(EndLine)>> =>
              new_content = Join(<<SepLine, Ordinary, EndLine>>)

\* a line, a block and a line: the block is replaced by its local line
C12_Witness ==
    /\ EraseDone
    /\ shape[Path] = <<LineItem(Ordinary), FullBlock, LineItem(Ordinary)>>
    /\ Len(FindAll(content, 1)) = 1
    /\ new_content = Join(<<Ordinary, Ordinary, Ordinary>>)

\* the paths of the list
Listed == {files[k] : k \in 1..Len(files)}

\* a step changes no file but the current one of the list, creates no file
\* and deletes none, and completes the write of no other path
OnlyCurrentTouched ==
    /\ present' = present
    /\ \A f \in DOMAIN disk : disk'[f] # disk[f] => (idx <= Len(files) /\ f = files[idx])
    /\ written' # written => written' = Append(written, files[idx])

\* after a complete run the writes are those of the list, one per path, and
\* the files outside the list are as they were
OnlyListedWritten ==
    pc = "done" =>
        /\ written = files
        /\ \A f \in Listed : Cardinality({k \in 1..Len(written) : written[k] = f}) = 1
        /\ \A f \in DOMAIN disk \ Listed :
              f \in present /\ disk[f] = Original(shape[f])
        /\ present = DOMAIN disk

(* C13: a complete run of either script writes the files of its path list
   and no other, each to its own path and exactly once; no step creates or
   deletes a file, and the files outside the list are unchanged. *)
C13_WritesOnlyListed == []OnlyListedWritten /\ [][OnlyCurrentTouched]_vars

\* a complete run on three files: the first one is rewritten, the file outside
\* the list still holds its conflict block
C13_Witness ==
    /\ pc = "done"
    /\ Len(files) = 3
    /\ written = files
    /\ shape[1] = <<FullBlock>>
    /\ disk[1] = Ordinary
    /\ disk[OutsidePath] = Original(<<FullBlock>>)

\* the three states of the scan, as pairs of flags
Outside    == ~in_head /\ ~in_remote
InLocal    == in_head /\ ~in_remote
InIncoming == ~in_head /\ in_remote

\* no line of the output so far starts with the start marker
NoStartInOutput ==
    script = "scan" => \A j \in 1..Len(new_lines) : ~IsStart(new_lines[j])

\* reading a start-marker line appends nothing, and from OUTSIDE it leads to
\* IN_LOCAL
StartStep ==
    (pc = "scan" /\ IsStart(lines[i])) =>
        /\ new_lines' = new_lines
        /\ Outside => (in_head' /\ ~in_remote')

(* C14: a line that starts with '<<<<<<< HEAD' is appended in no state of the
   scan, so no line of the output starts with it; read in OUTSIDE it moves
   the scan to IN_LOCAL. *)
C14_StartNeverEmitted == []NoStartInOutput /\ [][StartStep]_vars

\* a line that only starts with the start marker has been read in OUTSIDE
C14_Witness ==
    /\ script = "scan"
    /\ pc = "scan"
    /\ i = 2
    /\ lines[1] = StartLineX
    /\ new_lines = <<>>
    /\ InLocal

(* C15: a line that starts with '=======' or '>>>>>>>' and is read in OUTSIDE
   is appended unchanged and leaves the scan in OUTSIDE; a separator read in
   IN_LOCAL moves it to IN_INCOMING and an end marker read in IN_INCOMING
   moves it to OUTSIDE, and neither of these two lines is appended. *)
C15_MarkerSteps ==
    [][pc = "scan" =>
          /\ (Outside /\ (IsSep(lines[i]) \/ IsEnd(lines[i]))) =>
                (new_lines' = Append(new_lines, lines[i]) /\ ~in_head' /\ ~in_remote')
          /\ (InLocal /\ IsSep(lines[i])) =>
                (new_lines' = new_lines /\ ~in_head' /\ in_remote')
          /\ (InIncoming /\ IsEnd(lines[i])) =>
                (new_lines' = new_lines /\ ~in_head' /\ ~in_remote')]_vars

\* a stray separator and a stray end marker have been read in OUTSIDE
C15_Witness ==
    /\ script = "scan"
    /\ pc = "scan"
    /\ i = 3
    /\ lines[1] = SepLineX
    /\ lines[2] = EndBare
    /\ new_lines = <<SepLineX, EndBare>>
    /\ Outside

\* line s of ls is the separator of a block (a start marker precedes it with
\* no separator in between) and no end-marker line follows it
Unterminated(ls, s) ==
    /\ IsSep(ls[s])
    /\ \E q \in 1..(s - 1) :
          IsStart(ls[q]) /\ \A j \in (q + 1)..(s - 1) : ~IsSep(ls[j])
    /\ \A j \in (s + 1)..Len(ls) : ~IsEnd(ls[j])

\* the scan is at one line of the document until all are read, and it can
\* always go on: to the next line, and after the last line to the write
ScanProgress ==
    /\ (pc = "scan") => (i \in 1..Len(lines) /\ ENABLED ScanLine)
    /\ (script = "scan" /\ pc = "open") => (i = Len(lines) + 1 /\ ENABLED OpenWrite)
    /\ (script = "scan" /\ pc = "write") => ENABLED Write

\* a step of the scan reads the line i and moves to the line i + 1; the
\* ordinary lines behind an unterminated separator are not appended
ScanReadsOnce ==
    (pc = "scan") =>
        /\ i' = i + 1
        /\ lines' = lines
        /\ (~IsMarker(lines[i]) /\ \E s \in 1..(i - 1) : Unterminated(lines, s)) =>
              new_lines' = new_lines

(* C16: on every document the scan reads each line once, in order, reaches
   the end of the lines and writes its output, whatever the flags are at the
   end; when the separator of a block is followed by no end marker, none of
   the ordinary lines from that separator to the end of the input is
   appended to the output. *)
C16_UnterminatedBlock == []ScanProgress /\ [][ScanReadsOnce]_vars

\* a block without end marker: the scan ended in IN_INCOMING and the line
\* behind the separator is not in the output
C16_Witness ==
    /\ script = "scan"
    /\ pc = "write"
    /\ lines = <<Ordinary, StartLine, SepLine, Ordinary>>
    /\ InIncoming
    /\ new_lines = <<Ordinary>>

\* whether the lines a are lines of b, in the order of b, each used once
RECURSIVE IsSubseq(_, _)
IsSubseq(a, b) ==
    IF a = <<>> THEN TRUE
    ELSE IF b = <<>> THEN FALSE
    ELSE IF Head(a) = Head(b) THEN IsSubseq(Tail(a), Tail(b))
    ELSE IsSubseq(a, Tail(b))

(* C17: at every point of the scan the output is a subsequence of the lines
   read so far, and the written output one of the input's lines: each
   emitted line is an input line, unchanged, none is emitted twice or
   invented, and the order is kept. *)
C17_OutputSubsequence ==
    (script = "scan" /\ pc \in {"scan", "open", "write"}) =>
        /\ IsSubseq(new_lines, SubSeq(lines, 1, i - 1))
        /\ Len(new_lines) <= i - 1
        /\ lines = Split(content)
        /\ Transformed => IsSubseq(new_lines, Split(Original(shape[Path])))

\* a document with a block and stray markers: the output is a proper part
\* of the input
C17_Witness ==
    /\ ScanDone
    /\ lines = <<SepLine, StartLine, Ordinary, SepLine, Incoming, EndLine, EndLine>>
    /\ new_lines = <<SepLine, Ordinary, EndLine>>

(* C18: a line that starts with '>>>>>>>' and is read in IN_LOCAL, before any
   separator, is appended unchanged and leaves the scan in IN_LOCAL: it does
   not close the block. *)
C18_EndInLocalKept ==
    [][(pc = "scan" /\ InLocal /\ IsEnd(lines[i])) =>
          (new_lines' = Append(new_lines, lines[i]) /\ in_head' /\ ~in_remote')]_vars

\* an end marker has been read right behind a start marker
C18_Witness ==
    /\ script = "scan"
    /\ pc = "scan"
    /\ i = 3
    /\ lines[1] = StartLine
    /\ lines[2] = EndLine
    /\ new_lines = <<EndLine>>
    /\ InLocal

====
